---- MODULE Spec2Model ----
(***************************************************************************)
(* Shape-level model of src/fpn.py: the pyramid heads (FPN, PanopticFPN,   *)
(* PANetFPN), the shape probe _get_shapes, the backbone adapters, the      *)
(* pretrained-weight copy loop and the two segmentation factories.         *)
(*                                                                         *)
(* An Array is modelled by its shape (batch, channels, height, width); a   *)
(* Stream by the sequence of its elements; a failed evaluation by an error *)
(* value that every enclosing stage propagates unchanged.  Modules are     *)
(* records tagged with "op"; Forward interprets a module on an input the   *)
(* way the module's forward() computes the output shape.  Python indices   *)
(* are 0-based, the sequences here 1-based.                                *)
(*                                                                         *)
(* containers.py and layers.py are imported by src/fpn.py but are not part *)
(* of src/; their stages are modelled from spec.md sections 4.1-4.4.       *)
(***************************************************************************)
EXTENDS Integers, Sequences, FiniteSets, TLC

VARIABLES
    pc,                 \* the position of the running call
    cfg,                \* the arguments of the call that was made
    backbone,           \* the backbone module (m in _get_shapes)
    training,           \* backbone.training
    childTraining,      \* .training of the backbone's submodules
    state,              \* _get_shapes: the saved mode
    feats,              \* _get_shapes: the probing forward pass's result
    feats_shapes,       \* what _get_shapes returned
    forwards,           \* forward passes of the backbone executed so far
    model,              \* the assembled module (a head, or the whole model)
    inp,                \* the value the last evaluated stage consumed
    out,                \* the value the last evaluated stage produced
    layer,              \* stages of the head evaluated so far
    i,                  \* make_fusion_resnet_backbone: next channel to write
    remaining_channels, \* make_fusion_resnet_backbone: channels left
    weight,             \* new_conv.weight: per input channel, the pretrained
                        \* channel copied into it (-1: not written)
    writes              \* per input channel of new_conv, how often written

vars == <<pc, cfg, backbone, training, childTraining, state, feats,
          feats_shapes, forwards, model, inp, out, layer, i,
          remaining_channels, weight, writes>>

\* ------------------------------------------------------------------ values

Arr(s) == [kind |-> "array", why |-> "", shape |-> s, elems |-> <<>>]

Str(es) == [kind |-> "stream", why |-> "", shape |-> <<>>, elems |-> es]

Err(w) == [kind |-> "error", why |-> w, shape |-> <<>>, elems |-> <<>>]

None == [kind |-> "none", why |-> "", shape |-> <<>>, elems |-> <<>>]

IsArr(v) == v.kind = "array"

IsStr(v) == v.kind = "stream"

IsErr(v) == v.kind = "error"

\* The first error among the elements of a sequence of values, or None.
RECURSIVE FirstErr(_, _)
FirstErr(vs, k) ==
    IF k > Len(vs) THEN None
    ELSE IF IsErr(vs[k]) THEN vs[k] ELSE FirstErr(vs, k + 1)

\* s[::-1]
Rev(s) == [k \in 1..Len(s) |-> s[Len(s) + 1 - k]]

Min(a, b) == IF a < b THEN a ELSE b

\* ----------------------------------------------------------------- modules

Conv2d(ic, oc, ks, st, pd) ==
    [op |-> "Conv2d", in_c |-> ic, out_c |-> oc, k |-> ks, stride |-> st,
     pad |-> pd, wdim |-> 4]

GroupNorm(nc, g) == [op |-> "GroupNorm", num_channels |-> nc, num_groups |-> g]

ReLU == [op |-> "ReLU"]

BatchNorm(nc) == [op |-> "BatchNorm", num_channels |-> nc]

MaxPool(ks, st, pd) == [op |-> "MaxPool", k |-> ks, stride |-> st, pad |-> pd]

Identity == [op |-> "Identity"]

Sequential(ms) == [op |-> "Sequential", mods |-> ms]

Parallel(ms) == [op |-> "Parallel", mods |-> ms]

SequentialMultiInputMultiOutput(ms) == [op |-> "SMIMO", mods |-> ms]

SequentialMultiOutput(ms) == [op |-> "SMO", mods |-> ms]

Reverse == [op |-> "Reverse"]

AddTensors == [op |-> "AddTensors"]

AddAcross == [op |-> "AddAcross"]

SelectOne(k) == [op |-> "SelectOne", idx |-> k]

SplitTensor(szs) == [op |-> "SplitTensor", sizes |-> szs]

InterpolateSize(sz) == [op |-> "Interpolate", size |-> sz, scale |-> 0]

InterpolateScale(sc) == [op |-> "Interpolate", size |-> <<>>, scale |-> sc]

Residual(l) == [op |-> "Residual", layer |-> l]

\* Output extent of a strided window (convolution, pooling) along one axis.
WinOut(h, ks, st, pd) ==
    IF h + 2 * pd < ks THEN 0 ELSE ((h + 2 * pd - ks) \div st) + 1

\* nn.Conv2d on (n, c, h, w): the channel count must be the configured one
\* and the weight 4-dimensional.
ConvFwd(m, x) ==
    IF ~IsArr(x) THEN Err("type")
    ELSE IF m.wdim # 4 \/ x.shape[2] # m.in_c THEN Err("channels")
    ELSE LET h == WinOut(x.shape[3], m.k, m.stride, m.pad)
             w == WinOut(x.shape[4], m.k, m.stride, m.pad)
         IN IF h < 1 \/ w < 1 THEN Err("size")
            ELSE Arr(<<x.shape[1], m.out_c, h, w>>)

PoolFwd(m, x) ==
    IF ~IsArr(x) THEN Err("type")
    ELSE LET h == WinOut(x.shape[3], m.k, m.stride, m.pad)
             w == WinOut(x.shape[4], m.k, m.stride, m.pad)
         IN IF h < 1 \/ w < 1 THEN Err("size")
            ELSE Arr(<<x.shape[1], x.shape[2], h, w>>)

\* GroupNorm / BatchNorm: shape preserving, on the configured channel count.
NormFwd(m, x) ==
    IF ~IsArr(x) THEN Err("type")
    ELSE IF x.shape[2] # m.num_channels THEN Err("channels")
    ELSE x

\* Interpolate: to the target (height, width), or by the scale factor; batch
\* and channel counts are kept.
InterpolateFwd(m, x) ==
    IF ~IsArr(x) THEN Err("type")
    ELSE IF m.size # <<>>
         THEN Arr(<<x.shape[1], x.shape[2], m.size[1], m.size[2]>>)
         ELSE Arr(<<x.shape[1], x.shape[2],
                    x.shape[3] * m.scale, x.shape[4] * m.scale>>)

ReverseFwd(x) == IF ~IsStr(x) THEN Err("type") ELSE Str(Rev(x.elems))

SelectOneFwd(m, x) ==
    IF ~IsStr(x) THEN Err("type")
    ELSE IF m.idx + 1 > Len(x.elems) THEN Err("index")
    ELSE x.elems[m.idx + 1]

\* AddTensors: the elementwise sum of a Stream of Arrays of one shape.
AddTensorsFwd(x) ==
    IF ~IsStr(x) \/ Len(x.elems) = 0 THEN Err("type")
    ELSE IF \E k \in 1..Len(x.elems) : ~IsArr(x.elems[k]) THEN Err("type")
    ELSE IF \E k \in 1..Len(x.elems) : x.elems[k].shape # x.elems[1].shape
         THEN Err("shape")
    ELSE x.elems[1]

\* AddAcross: pairwise sums of two co-indexed Streams of equal length.
AddAcrossFwd(x) ==
    IF ~IsStr(x) \/ Len(x.elems) # 2 THEN Err("arity")
    ELSE LET a == x.elems[1]
             b == x.elems[2]
         IN IF ~IsStr(a) \/ ~IsStr(b) THEN Err("type")
            ELSE IF Len(a.elems) # Len(b.elems) THEN Err("arity")
            ELSE IF \E k \in 1..Len(a.elems) : a.elems[k] # b.elems[k]
                 THEN Err("shape")
            ELSE a

\* SplitTensor along the channel axis into contiguous chunks.
RECURSIVE SumSeq(_, _)
SumSeq(s, k) == IF k > Len(s) THEN 0 ELSE s[k] + SumSeq(s, k + 1)

SplitTensorFwd(m, x) ==
    IF ~IsArr(x) THEN Err("type")
    ELSE IF SumSeq(m.sizes, 1) # x.shape[2] THEN Err("channels")
    ELSE Str([k \in 1..Len(m.sizes) |->
                Arr(<<x.shape[1], m.sizes[k], x.shape[3], x.shape[4]>>)])

\* An opaque torchvision residual layer: channels in_c -> out_c, spatial
\* extent divided by its stride (3x3 window, padding 1).
ResLayer(ic, oc, st) == [op |-> "ResLayer", in_c |-> ic, out_c |-> oc, stride |-> st]

ResLayerFwd(m, x) ==
    IF ~IsArr(x) THEN Err("type")
    ELSE IF x.shape[2] # m.in_c THEN Err("channels")
    ELSE Arr(<<x.shape[1], m.out_c,
               WinOut(x.shape[3], 3, m.stride, 1),
               WinOut(x.shape[4], 3, m.stride, 1)>>)

\* An opaque EfficientNet: extract_endpoints yields one feature map per
\* resolution reduction, each half (rounded up) the extent of the previous.
EffNet(ic) == [op |-> "EffNet", in_c |-> ic, chans |-> <<16, 24, 40, 112, 320>>]

Halve(h) == (h + 1) \div 2

RECURSIVE HalveN(_, _)
HalveN(h, k) == IF k = 0 THEN h ELSE HalveN(Halve(h), k - 1)

EffNetFwd(m, x) ==
    IF ~IsArr(x) THEN Err("type")
    ELSE IF x.shape[2] # m.in_c THEN Err("channels")
    ELSE Str([k \in 1..Len(m.chans) |->
                Arr(<<x.shape[1], m.chans[k],
                      HalveN(x.shape[3], k), HalveN(x.shape[4], k)>>)])

EfficientNetFeatureMapsExtractor(effnet) == [op |-> "EffFME", m |-> effnet]

\* ------------------------------------------------------------- interpreter

RECURSIVE Forward(_, _)
RECURSIVE SequentialFwd(_, _, _)
RECURSIVE ParallelFwd(_, _)
RECURSIVE SMIMOFold(_, _, _, _)
RECURSIVE SMOFold(_, _, _, _)

\* nn.Sequential: stage k consumes the output of stage k-1.
SequentialFwd(ms, x, k) ==
    IF k > Len(ms) \/ IsErr(x) THEN x
    ELSE SequentialFwd(ms, Forward(ms[k], x), k + 1)

\* Parallel: output[k] = branch[k](input[k]) on a Stream of exactly as many
\* elements as there are branches.
ParallelFwd(ms, x) ==
    IF ~IsStr(x) \/ Len(x.elems) # Len(ms) THEN Err("arity")
    ELSE LET ys == [k \in 1..Len(ms) |-> Forward(ms[k], x.elems[k])]
         IN IF IsErr(FirstErr(ys, 1)) THEN FirstErr(ys, 1) ELSE Str(ys)

\* SequentialMultiInputMultiOutput, from stage k on: stage k merges external
\* input k with the accumulator (the previous output); the new accumulator
\* is output k.
SMIMOFold(ms, xs, k, outs) ==
    IF k > Len(ms) THEN Str(outs)
    ELSE LET y == Forward(ms[k], Str(<<xs[k], outs[k - 1]>>))
         IN IF IsErr(y) THEN y ELSE SMIMOFold(ms, xs, k + 1, Append(outs, y))

\* The accumulator starts as the first external input, which is output 0.
SMIMOFwd(ms, x) ==
    IF ~IsStr(x) \/ Len(x.elems) # Len(ms) THEN Err("arity")
    ELSE IF IsErr(FirstErr(x.elems, 1)) THEN FirstErr(x.elems, 1)
    ELSE SMIMOFold(ms, x.elems, 2, <<x.elems[1]>>)

\* SequentialMultiOutput: a chain on one Array that keeps every stage's output.
SMOFold(ms, x, k, outs) ==
    IF k > Len(ms) THEN Str(outs)
    ELSE LET y == Forward(ms[k], x)
         IN IF IsErr(y) THEN y ELSE SMOFold(ms, y, k + 1, Append(outs, y))

\* Residual(f): x + f(x) on one Array; as a merge stage of the fold it gets
\* the pair (external input x, accumulator) and returns x + f(accumulator).
\* The sum needs both operands of one shape: Residual does not resample.
ResidualFwd(m, x) ==
    LET a == IF IsStr(x) /\ Len(x.elems) = 2 THEN x.elems[1] ELSE x
        b == IF IsStr(x) /\ Len(x.elems) = 2 THEN x.elems[2] ELSE x
        r == Forward(m.layer, b)
    IN IF ~IsArr(a) THEN Err("type")
       ELSE IF IsErr(r) THEN r
       ELSE IF r # a THEN Err("shape")
       ELSE a

\* ResNetFeatureMapsExtractor.forward
ResNetFMEFwd(m, x) ==
    IF m.mode # "fusion" THEN Forward(m.m, x)
    ELSE IF ~IsStr(x) \/ Len(x.elems) # 2 THEN Err("unpack")
    ELSE IF ~IsStr(x.elems[2]) THEN Err("unpack")
    ELSE Forward(m.m, Str(<<x.elems[1]>> \o x.elems[2].elems))

Forward(m, x) ==
    IF IsErr(x) THEN x
    ELSE CASE m.op = "Conv2d" -> ConvFwd(m, x)
           [] m.op = "GroupNorm" -> NormFwd(m, x)
           [] m.op = "BatchNorm" -> NormFwd(m, x)
           [] m.op = "ReLU" -> IF IsArr(x) THEN x ELSE Err("type")
           [] m.op = "MaxPool" -> PoolFwd(m, x)
           [] m.op = "Identity" -> x
           [] m.op = "Interpolate" -> InterpolateFwd(m, x)
           [] m.op = "Reverse" -> ReverseFwd(x)
           [] m.op = "SelectOne" -> SelectOneFwd(m, x)
           [] m.op = "AddTensors" -> AddTensorsFwd(x)
           [] m.op = "AddAcross" -> AddAcrossFwd(x)
           [] m.op = "SplitTensor" -> SplitTensorFwd(m, x)
           [] m.op = "Residual" -> ResidualFwd(m, x)
           [] m.op = "Sequential" -> SequentialFwd(m.mods, x, 1)
           [] m.op = "Parallel" -> ParallelFwd(m.mods, x)
           [] m.op = "SMIMO" -> SMIMOFwd(m.mods, x)
           [] m.op = "SMO" ->
                IF IsArr(x) THEN SMOFold(m.mods, x, 1, <<>>) ELSE Err("type")
           [] m.op = "ResLayer" -> ResLayerFwd(m, x)
           [] m.op = "EffNet" -> EffNetFwd(m, x)
           [] m.op = "EffFME" -> Forward(m.m, x)
           [] m.op = "ResNetFME" -> ResNetFMEFwd(m, x)
           [] OTHER -> Err("module")

\* --------------------------------------------------------------------- FPN

\* in_convs: one 1x1 projection per level, coarsest level first.
FPNInConvs(in_feats_shapes, hidden_channels) ==
    Parallel([k \in 1..Len(in_feats_shapes) |->
                Conv2d(Rev(in_feats_shapes)[k][2], hidden_channels, 1, 1, 0)])

\* Mutant: the merge stages are sized for the levels finest first.
FPNUpsampleAndAddFinestFirst(in_feats_shapes) ==
    SequentialMultiInputMultiOutput(
        [k \in 1..Len(in_feats_shapes) |->
            Residual(InterpolateSize(<<in_feats_shapes[k][3],
                                       in_feats_shapes[k][4]>>))])

\* upsample_and_add: one Residual(Interpolate(size of the level)) per level,
\* coarsest level first.
FPNUpsampleAndAdd(in_feats_shapes) ==
    SequentialMultiInputMultiOutput(
        [k \in 1..Len(in_feats_shapes) |->
            Residual(InterpolateSize(<<Rev(in_feats_shapes)[k][3],
                                       Rev(in_feats_shapes)[k][4]>>))])

\* out_convs: one 3x3 convolution (padding 1) per level.
FPNOutConvs(in_feats_shapes, hidden_channels, out_channels) ==
    Parallel([k \in 1..Len(in_feats_shapes) |->
                Conv2d(hidden_channels, out_channels, 3, 1, 1)])

\* Mutant: the closing Reverse is left out.
FPNNoFinalReverse(in_feats_shapes, hidden_channels, out_channels) ==
    Sequential(<<Reverse,
                 FPNInConvs(in_feats_shapes, hidden_channels),
                 FPNUpsampleAndAdd(in_feats_shapes),
                 FPNOutConvs(in_feats_shapes, hidden_channels, out_channels)>>)

FPN(in_feats_shapes, hidden_channels, out_channels) ==
    Sequential(<<Reverse,
                 FPNInConvs(in_feats_shapes, hidden_channels),
                 FPNUpsampleAndAdd(in_feats_shapes),
                 FPNOutConvs(in_feats_shapes, hidden_channels, out_channels),
                 Reverse>>)

\* ------------------------------------------------------------- PanopticFPN

\* _upsample_once; out_c = 0 stands for None, size = <<>> for None.
UpsampleOnce(in_c, out_c, scale, size, g) ==
    LET oc == IF out_c = 0 THEN in_c ELSE out_c
        layers == <<Conv2d(in_c, oc, 3, 1, 1), GroupNorm(oc, g), ReLU>>
    IN IF scale = 1 THEN Sequential(layers)
       ELSE IF size = <<>>
            THEN Sequential(Append(layers, InterpolateScale(scale)))
            ELSE Sequential(Append(layers, InterpolateSize(size)))

\* Mutant: the last block upsamples by 2 instead of to the target size.
UpsampleFeatNoSize(c, num_up, size, g) ==
    IF num_up = 0 THEN UpsampleOnce(c, c \div 2, 1, <<>>, g)
    ELSE Sequential([k \in 1..num_up |->
                        IF k < num_up THEN UpsampleOnce(c, 0, 2, <<>>, g)
                        ELSE UpsampleOnce(c, c \div 2, 2, <<>>, g)])

\* _upsample_feat
UpsampleFeat(c, num_up, size, g) ==
    IF num_up = 0 THEN UpsampleOnce(c, c \div 2, 1, <<>>, g)
    ELSE Sequential([k \in 1..num_up |->
                        IF k < num_up THEN UpsampleOnce(c, 0, 2, <<>>, g)
                        ELSE UpsampleOnce(c, c \div 2, 2, size, g)])

\* _make_upsamplers
MakeUpsamplers(c, size, num_ups, g) ==
    Parallel([k \in 1..Len(num_ups) |-> UpsampleFeat(c, num_ups[k], size, g)])

\* num_ups = <<-1>> stands for None: list(range(len(in_feats_shapes))).
NumUpsOrDefault(in_feats_shapes, num_ups) ==
    IF num_ups = <<-1>> THEN [k \in 1..Len(in_feats_shapes) |-> k - 1]
    ELSE num_ups

PanopticFPN(in_feats_shapes, hidden_channels, out_channels, num_ups, g) ==
    Sequential(<<
        Parallel([k \in 1..Len(in_feats_shapes) |->
                    Conv2d(in_feats_shapes[k][2], hidden_channels, 1, 1, 0)]),
        MakeUpsamplers(hidden_channels,
                       <<in_feats_shapes[1][3], in_feats_shapes[1][4]>>,
                       NumUpsOrDefault(in_feats_shapes, num_ups), g),
        AddTensors,
        Conv2d(hidden_channels \div 2, out_channels, 1, 1, 0)>>)

\* ---------------------------------------------------------------- PANetFPN

\* [(n, hidden_channels, h, w) for (n, c, h, w) in in_feats_shapes]
WithChannels(in_feats_shapes, c) ==
    [k \in 1..Len(in_feats_shapes) |->
        <<in_feats_shapes[k][1], c, in_feats_shapes[k][3], in_feats_shapes[k][4]>>]

PANetFPN(in_feats_shapes, hidden_channels, out_channels) ==
    Sequential(<<
        FPN(in_feats_shapes, hidden_channels, hidden_channels),
        Reverse,
        FPN(Rev(WithChannels(in_feats_shapes, hidden_channels)),
            hidden_channels, out_channels),
        Reverse>>)

\* ---------------------------------------------------------------- backbones

\* A torchvision resnet18: its first convolution, and the stem and layers
\* ResNetFeatureMapsExtractor reads from it.
ResNet == [conv1 |-> Conv2d(3, 64, 7, 2, 3),
           bn1 |-> BatchNorm(64),
           relu |-> ReLU,
           maxpool |-> MaxPool(3, 2, 1),
           layer1 |-> ResLayer(64, 64, 1),
           layer2 |-> ResLayer(64, 128, 2),
           layer3 |-> ResLayer(128, 256, 2),
           layer4 |-> ResLayer(256, 512, 2)]

\* The stage list of the fusion extractor: the stem, then AddTensors followed
\* by each layer.
FusionStages(stem, layers) ==
    <<stem>> \o [k \in 1..Len(layers) |-> Sequential(<<AddTensors, layers[k]>>)]

ResNetFeatureMapsExtractor(resnet, mode) ==
    LET stem == Sequential(<<resnet.conv1, resnet.bn1, resnet.relu, resnet.maxpool>>)
        layers == <<resnet.layer1, resnet.layer2, resnet.layer3, resnet.layer4>>
    IN [op |-> "ResNetFME", mode |-> mode,
        m |-> IF mode = "fusion"
              THEN SequentialMultiInputMultiOutput(FusionStages(stem, layers))
              ELSE SequentialMultiOutput(<<stem>> \o layers)]

\* The backbone make_fusion_resnet_backbone returns, new_resnet.conv1 being
\* the new first convolution.
FusionBackbone(old_resnet, new_resnet, new_channels, new_conv) ==
    Sequential(<<
        SplitTensor(<<3, new_channels>>),
        Parallel(<<Identity,
                   ResNetFeatureMapsExtractor(
                       [new_resnet EXCEPT !.conv1 = new_conv], "none")>>),
        ResNetFeatureMapsExtractor(old_resnet, "fusion")>>)

\* make_segm_fpn_resnet, the branches that build the backbone without the
\* fusion loop: 3 channels; not pretrained; pretrained with fewer than 3
\* channels, where weight.data = old_conv.weight.data[:, in_channels] is one
\* channel of the old weight, a 3-dimensional array.
ResNetBackbone(in_channels, pretrained) ==
    IF in_channels = 3 THEN ResNetFeatureMapsExtractor(ResNet, "none")
    ELSE IF ~pretrained
         THEN ResNetFeatureMapsExtractor(
                 [ResNet EXCEPT !.conv1 = Conv2d(in_channels, 64, 7, 2, 3)], "none")
         ELSE ResNetFeatureMapsExtractor(
                 [ResNet EXCEPT !.conv1 =
                     [Conv2d(in_channels, 64, 7, 2, 3) EXCEPT !.wdim = 3]], "none")

\* make_segm_fpn_efficientnet: the first network is loaded with 3 input
\* channels whatever in_channels is.
EfficientNetBackbone(in_channels) ==
    IF in_channels > 3
    THEN Sequential(<<
            SplitTensor(<<3, in_channels - 3>>),
            Parallel(<<EfficientNetFeatureMapsExtractor(EffNet(3)),
                       EfficientNetFeatureMapsExtractor(EffNet(in_channels - 3))>>),
            AddAcross>>)
    ELSE EfficientNetFeatureMapsExtractor(EffNet(3))

\* The head either factory builds for a recognized fpn_type.
SegmHead(fpn_type, shapes, fpn_channels, num_classes) ==
    IF fpn_type = "fpn"
    THEN Sequential(<<FPN(shapes, fpn_channels, num_classes), SelectOne(0)>>)
    ELSE IF fpn_type = "panoptic"
    THEN PanopticFPN(shapes, fpn_channels, num_classes, <<-1>>, 32)
    ELSE Sequential(<<
            PANetFPN(shapes, fpn_channels, fpn_channels),
            FPN(WithChannels(shapes, fpn_channels), fpn_channels, num_classes),
            SelectOne(0)>>)

FpnTypes == {"fpn", "panoptic", "panet+fpn"}

\* Mutant: the closing Interpolate(size=out_size) is left out.
SegmModelNoResize(bb, fpn, out_size) == Sequential(<<bb, fpn>>)

\* model = nn.Sequential(backbone, fpn, Interpolate(size=out_size, ...))
SegmModel(bb, fpn, out_size) ==
    Sequential(<<bb, fpn, InterpolateSize(out_size)>>)

\* ------------------------------------------------------------------ bounds

MaxLevels == 3

MaxUps == 2

MaxNewChannels == 20

MaxExtraChannels == 2

\* ------------------------------------------------------------------ inputs

\* Spatial extents of probe and run-time inputs.
Sizes == {64, 128}

\* out_size: square and not.
OutSizes == {<<64, 64>>, <<128, 128>>, <<64, 128>>}

Batches == {1, 2}

InChannels == 2..(3 + MaxExtraChannels)

\* A backbone's probed shapes, finest level first: level k has 16k channels
\* and half the extent of level k-1; with dup, the first two levels share
\* one extent, as a ResNet's stem and layer1 do.
Pyramid(n, h, w, dup) ==
    [k \in 1..n |->
        <<1, 16 * k,
          HalveN(h, IF dup /\ k > 1 THEN k - 2 ELSE k - 1),
          HalveN(w, IF dup /\ k > 1 THEN k - 2 ELSE k - 1)>>]

Pyramids ==
    {Pyramid(n, h, w, dup) :
        n \in 1..MaxLevels, h \in {8, 12}, w \in {8, 24}, dup \in BOOLEAN}

NumUpsChoices(n) == {<<-1>>} \cup [1..n -> 0..MaxUps]

\* The Stream a backbone with the given probed shapes emits for a batch.
LevelStream(in_feats_shapes, batch) ==
    Str([k \in 1..Len(in_feats_shapes) |->
            Arr(<<batch, in_feats_shapes[k][2],
                  in_feats_shapes[k][3], in_feats_shapes[k][4]>>)])

\* [f.shape for f in feats]
Shapes(fs) == [k \in 1..Len(fs.elems) |-> fs.elems[k].shape]

\* ------------------------------------------------------------------- state

Idle ==
    /\ backbone = None
    /\ training = TRUE
    /\ childTraining = TRUE
    /\ state = FALSE
    /\ feats = None
    /\ feats_shapes = <<>>
    /\ forwards = 0
    /\ model = None
    /\ inp = None
    /\ out = None
    /\ layer = 0
    /\ i = 0
    /\ remaining_channels = 0
    /\ weight = <<>>
    /\ writes = <<>>

\* A call of make_segm_fpn_resnet or make_segm_fpn_efficientnet.
InitFactory ==
    /\ pc = "factory"
    /\ cfg \in [entry : {"factory"},
                factory : {"resnet", "efficientnet"},
                fpn_type : FpnTypes \cup {"unet"},
                in_channels : InChannels,
                pretrained : BOOLEAN,
                out_size : OutSizes,
                fpn_channels : {64},
                num_classes : {5}]
    /\ Idle

\* A call of _get_shapes(m, ch, sz) on a backbone in either mode.
InitProbe ==
    /\ pc = "probe"
    /\ cfg \in [entry : {"probe"}, ch : {3, 4}, sz : Sizes, training : BOOLEAN]
    /\ backbone \in {ResNetBackbone(3, TRUE), ResNetBackbone(4, FALSE),
                     EfficientNetBackbone(3), EfficientNetBackbone(4)}
    /\ training = cfg.training
    /\ childTraining \in BOOLEAN
    /\ state = FALSE
    /\ feats = None
    /\ feats_shapes = <<>>
    /\ forwards = 0
    /\ model = None
    /\ inp = None
    /\ out = None
    /\ layer = 0
    /\ i = 0
    /\ remaining_channels = 0
    /\ weight = <<>>
    /\ writes = <<>>

\* The construction of a pyramid head and its evaluation on a Stream.
InitHead ==
    /\ pc = "head"
    /\ \E shapes \in Pyramids :
          cfg \in [entry : {"head"},
                   head : {"fpn", "panoptic", "panet"},
                   in_feats_shapes : {shapes},
                   hidden_channels : {64},
                   out_channels : {5},
                   num_ups : NumUpsChoices(Len(shapes)),
                   batch : Batches]
    /\ cfg.head # "panoptic" => cfg.num_ups = <<-1>>
    /\ Idle

\* A call of make_fusion_resnet_backbone.
InitCopy ==
    /\ pc = "fusion"
    /\ cfg \in [entry : {"fusion"}, new_channels : 1..MaxNewChannels]
    /\ Idle

Init == InitFactory \/ InitProbe \/ InitHead \/ InitCopy

\* ------------------------------------------------------------- _get_shapes

\* The arguments ch and sz of the running _get_shapes call: its own, or the
\* factory's in_channels and out_size[0].
ProbeCh == IF cfg.entry = "probe" THEN cfg.ch ELSE cfg.in_channels

ProbeSz == IF cfg.entry = "probe" THEN cfg.sz ELSE cfg.out_size[1]

\* state = m.training
ProbeSave ==
    /\ pc = "probe"
    /\ state' = training
    /\ pc' = "probe_eval"
    /\ UNCHANGED <<cfg, backbone, training, childTraining, feats, feats_shapes,
                   forwards, model, inp, out, layer, i, remaining_channels,
                   weight, writes>>

\* m.eval(): the module and its submodules leave training mode.
ProbeEval ==
    /\ pc = "probe_eval"
    /\ training' = FALSE
    /\ childTraining' = FALSE
    /\ pc' = "probe_forward"
    /\ UNCHANGED <<cfg, backbone, state, feats, feats_shapes, forwards, model,
                   inp, out, layer, i, remaining_channels, weight, writes>>

\* feats = m(torch.empty(1, ch, sz, sz)); an error leaves the function here.
ProbeForward ==
    /\ pc = "probe_forward"
    /\ LET r == Forward(backbone, Arr(<<1, ProbeCh, ProbeSz, ProbeSz>>))
       IN IF IsErr(r)
          THEN /\ pc' = "probe_raised"
               /\ out' = r
               /\ feats' = feats
          ELSE /\ pc' = "probe_restore"
               /\ feats' = r
               /\ out' = out
    /\ forwards' = forwards + 1
    /\ UNCHANGED <<cfg, backbone, training, childTraining, state,
                   feats_shapes, model, inp, layer, i, remaining_channels,
                   weight, writes>>

\* Mutant: m.train() instead of m.train(state).
ProbeRestoreTrain ==
    /\ pc = "probe_restore"
    /\ training' = TRUE
    /\ childTraining' = TRUE
    /\ pc' = "probe_return"
    /\ UNCHANGED <<cfg, backbone, state, feats, feats_shapes, forwards, model,
                   inp, out, layer, i, remaining_channels, weight, writes>>

\* m.train(state): the module and its submodules get the saved mode.
ProbeRestore ==
    /\ pc = "probe_restore"
    /\ training' = state
    /\ childTraining' = state
    /\ pc' = "probe_return"
    /\ UNCHANGED <<cfg, backbone, state, feats, feats_shapes, forwards, model,
                   inp, out, layer, i, remaining_channels, weight, writes>>

\* return [f.shape for f in feats]
ProbeReturn ==
    /\ pc = "probe_return"
    /\ feats_shapes' = Shapes(feats)
    /\ pc' = IF cfg.entry = "factory" THEN "select" ELSE "probe_returned"
    /\ UNCHANGED <<cfg, backbone, training, childTraining, state, feats,
                   forwards, model, inp, out, layer, i, remaining_channels,
                   weight, writes>>

\* --------------------------------------------- make_fusion_resnet_backbone

NewChannels ==
    IF cfg.entry = "fusion" THEN cfg.new_channels ELSE cfg.in_channels - 3

\* new_conv = nn.Conv2d(in_channels=new_channels, ...); i = 0;
\* remaining_channels = new_channels
FusionEnter ==
    /\ pc = "fusion"
    /\ weight' = [j \in 1..NewChannels |-> -1]
    /\ writes' = [j \in 1..NewChannels |-> 0]
    /\ i' = 0
    /\ remaining_channels' = NewChannels
    /\ pc' = "copy_loop"
    /\ UNCHANGED <<cfg, backbone, training, childTraining, state, feats,
                   feats_shapes, forwards, model, inp, out, layer>>

\* Mutant: chunk_size = 3 whatever remains.
ChunkSizeThree(remaining) == 3

\* chunk_size = min(remaining_channels, 3)
ChunkSize(remaining) == Min(remaining, 3)

\* The channels of new_conv.weight that the slice [:, lo:lo + n] names: a
\* slice past the end is cut at the end.
SliceIndices(lo, n, len) == {j \in 1..len : lo < j /\ j <= lo + n}

\* One pass of the loop body: the first chunk_size pretrained channels are
\* assigned to channels i .. i + chunk_size - 1 of the new weight (channel
\* j of the model is index j - 1 of the code).  An assignment to a slice of
\* another length is an error.
CopyStep ==
    /\ pc = "copy_loop"
    /\ remaining_channels > 0
    /\ LET chunk_size == ChunkSize(remaining_channels)
           target == SliceIndices(i, chunk_size, Len(weight))
       IN IF Cardinality(target) # chunk_size
          THEN /\ pc' = "copy_raised"
               /\ UNCHANGED <<weight, writes, i, remaining_channels>>
          ELSE /\ weight' = [j \in 1..Len(weight) |->
                                IF j \in target THEN j - 1 - i ELSE weight[j]]
               /\ writes' = [j \in 1..Len(writes) |->
                                IF j \in target THEN writes[j] + 1 ELSE writes[j]]
               /\ i' = i + chunk_size
               /\ remaining_channels' = remaining_channels - chunk_size
               /\ pc' = pc
    /\ UNCHANGED <<cfg, backbone, training, childTraining, state, feats,
                   feats_shapes, forwards, model, inp, out, layer>>

\* The loop ends; new_resnet.conv1 = new_conv; the backbone is assembled.
CopyExit ==
    /\ pc = "copy_loop"
    /\ ~(remaining_channels > 0)
    /\ backbone' = FusionBackbone(ResNet, ResNet, NewChannels,
                                  Conv2d(NewChannels, 64, 7, 2, 3))
    /\ pc' = IF cfg.entry = "factory" THEN "probe" ELSE "fusion_returned"
    /\ UNCHANGED <<cfg, training, childTraining, state, feats, feats_shapes,
                   forwards, model, inp, out, layer, i, remaining_channels,
                   weight, writes>>

\* --------------------------------------------------------------- factories

\* The fusion branch of make_segm_fpn_resnet.
IsFusion(c) ==
    c.factory = "resnet" /\ c.in_channels # 3 /\ c.pretrained /\ c.in_channels > 3

\* The backbone is built (or make_fusion_resnet_backbone is entered).
LoadBackbone ==
    /\ pc = "factory"
    /\ IF cfg.factory = "efficientnet"
       THEN /\ backbone' = EfficientNetBackbone(cfg.in_channels)
            /\ pc' = "probe"
       ELSE IF IsFusion(cfg)
       THEN /\ backbone' = backbone
            /\ pc' = "fusion"
       ELSE /\ backbone' = ResNetBackbone(cfg.in_channels, cfg.pretrained)
            /\ pc' = "probe"
    /\ UNCHANGED <<cfg, training, childTraining, state, feats, feats_shapes,
                   forwards, model, inp, out, layer, i, remaining_channels,
                   weight, writes>>

\* The fpn_type branches after the probe, and the model's assembly.
Assemble ==
    /\ pc = "select"
    /\ cfg.fpn_type \in FpnTypes
    /\ model' = SegmModel(backbone,
                          SegmHead(cfg.fpn_type, feats_shapes,
                                   cfg.fpn_channels, cfg.num_classes),
                          cfg.out_size)
    /\ pc' = "built"
    /\ UNCHANGED <<cfg, backbone, training, childTraining, state, feats,
                   feats_shapes, forwards, inp, out, layer, i,
                   remaining_channels, weight, writes>>

\* else: raise NotImplementedError()
RaiseNotImplemented ==
    /\ pc = "select"
    /\ cfg.fpn_type \notin FpnTypes
    /\ out' = Err("NotImplementedError")
    /\ pc' = "raised"
    /\ UNCHANGED <<cfg, backbone, training, childTraining, state, feats,
                   feats_shapes, forwards, model, inp, layer, i,
                   remaining_channels, weight, writes>>

\* The returned model is evaluated on one Array of in_channels channels.
Call ==
    /\ pc = "built"
    /\ \E b \in Batches, h \in Sizes, w \in Sizes :
          /\ inp' = Arr(<<b, cfg.in_channels, h, w>>)
          /\ out' = Forward(model, Arr(<<b, cfg.in_channels, h, w>>))
    /\ forwards' = forwards + 1
    /\ pc' = "called"
    /\ UNCHANGED <<cfg, backbone, training, childTraining, state, feats,
                   feats_shapes, model, layer, i, remaining_channels, weight,
                   writes>>

\* ------------------------------------------------------------------- heads

HeadModule(c) ==
    IF c.head = "fpn"
    THEN FPN(c.in_feats_shapes, c.hidden_channels, c.out_channels)
    ELSE IF c.head = "panoptic"
    THEN PanopticFPN(c.in_feats_shapes, c.hidden_channels, c.out_channels,
                     c.num_ups, 32)
    ELSE PANetFPN(c.in_feats_shapes, c.hidden_channels, c.out_channels)

\* The head is constructed; the backbone's Stream for one batch arrives.
BuildHead ==
    /\ pc = "head"
    /\ model' = HeadModule(cfg)
    /\ out' = LevelStream(cfg.in_feats_shapes, cfg.batch)
    /\ pc' = "head_run"
    /\ UNCHANGED <<cfg, backbone, training, childTraining, state, feats,
                   feats_shapes, forwards, inp, layer, i, remaining_channels,
                   weight, writes>>

\* nn.Sequential.forward of the head, one stage at a time.
StepHead ==
    /\ pc = "head_run"
    /\ layer < Len(model.mods)
    /\ ~IsErr(out)
    /\ inp' = out
    /\ out' = Forward(model.mods[layer + 1], out)
    /\ layer' = layer + 1
    /\ UNCHANGED <<pc, cfg, backbone, training, childTraining, state, feats,
                   feats_shapes, forwards, model, i, remaining_channels,
                   weight, writes>>

\* ---------------------------------------------------------- specifications

Next ==
    \/ ProbeSave \/ ProbeEval \/ ProbeForward \/ ProbeRestore \/ ProbeReturn
    \/ FusionEnter \/ CopyStep \/ CopyExit
    \/ LoadBackbone \/ Assemble \/ RaiseNotImplemented \/ Call
    \/ BuildHead \/ StepHead

Spec == Init /\ [][Next]_vars

\* The copy loop alone; a running loop is not suspended forever.
NextCopy == FusionEnter \/ CopyStep \/ CopyExit

SpecCopy == InitCopy /\ [][NextCopy]_vars /\ WF_vars(NextCopy)

\* ------------------------------------------------------------------ claims

\* (height, width) of an Array.
Spatial(v) == <<v.shape[3], v.shape[4]>>

\* The mode the backbone was in when _get_shapes was entered: the caller's
\* for a direct call, training for the backbone a factory has just loaded.
EntryTraining == IF cfg.entry = "probe" THEN cfg.training ELSE TRUE

\* The Array a factory's model is documented to return for the last input.
ExpectedOutput ==
    Arr(<<inp.shape[1], cfg.num_classes, cfg.out_size[1], cfg.out_size[2]>>)

\* The run-time input has the spatial size of the probe input, out_size[0]
\* by out_size[0].
InputHasProbeSize ==
    inp.shape[3] = cfg.out_size[1] /\ inp.shape[4] = cfg.out_size[1]

\* C1 (as stated): whatever Array (batch, in_channels, height, width) a model
\* assembled for a recognized fpn_type is called with, it returns one Array
\* of shape (batch, num_classes, out_size[0], out_size[1]).
C1_AnyInput == pc = "called" => out = ExpectedOutput

\* C1 (amended): called with an Array (batch, in_channels, out_size[0],
\* out_size[0]), the spatial size the backbone was probed with, a model
\* assembled for a recognized fpn_type returns one Array, not a Stream, of
\* shape (batch, num_classes, out_size[0], out_size[1]).
C1_ProbeSizedInput ==
    (pc = "called" /\ InputHasProbeSize) => out = ExpectedOutput

C1_Witness ==
    /\ pc = "called"
    /\ InputHasProbeSize
    /\ cfg.fpn_type = "panet+fpn"
    /\ cfg.out_size = <<64, 128>>
    /\ inp.shape[1] = 2
    /\ out = ExpectedOutput

\* The state in which the FPN head has just evaluated its third stage, the
\* top-down fold: inp is the Stream of projected levels, out the fold's result.
FoldEvaluated == pc = "head_run" /\ cfg.head = "fpn" /\ layer = 3

\* C2: FPN's top-down fold, called with the Stream of the N projected levels,
\* returns a Stream of N elements, element k of the shape of external input k.
C2_FoldKeepsShapes ==
    FoldEvaluated =>
        /\ IsStr(out)
        /\ Len(out.elems) = Len(cfg.in_feats_shapes)
        /\ Len(inp.elems) = Len(cfg.in_feats_shapes)
        /\ \A k \in 1..Len(inp.elems) :
              IsArr(out.elems[k]) /\ out.elems[k].shape = inp.elems[k].shape

C2_Witness ==
    /\ FoldEvaluated
    /\ Len(cfg.in_feats_shapes) = 3
    /\ cfg.batch = 2
    /\ IsStr(out)
    /\ Spatial(out.elems[1]) # Spatial(out.elems[3])

\* The state in which PanopticFPN has evaluated in_convs and the upsamplers:
\* out is what enters AddTensors.
BranchesEvaluated == pc = "head_run" /\ cfg.head = "panoptic" /\ layer = 2

\* All N branch outputs have the finest level's height and width and
\* hidden_channels // 2 channels.
BranchesAligned ==
    /\ IsStr(out)
    /\ Len(out.elems) = Len(cfg.in_feats_shapes)
    /\ \A k \in 1..Len(out.elems) :
          /\ IsArr(out.elems[k])
          /\ Spatial(out.elems[k]) =
                <<cfg.in_feats_shapes[1][3], cfg.in_feats_shapes[1][4]>>
          /\ out.elems[k].shape[2] = cfg.hidden_channels \div 2

\* Every level that is upsampled zero times already has the finest level's
\* spatial size (with the default range(N), that is level 0 alone).
ZeroUpsOnlyAtFinestSize ==
    LET ups == NumUpsOrDefault(cfg.in_feats_shapes, cfg.num_ups)
    IN \A k \in 1..Len(ups) :
          ups[k] = 0 =>
             /\ cfg.in_feats_shapes[k][3] = cfg.in_feats_shapes[1][3]
             /\ cfg.in_feats_shapes[k][4] = cfg.in_feats_shapes[1][4]

\* C3 (as stated): for any num_ups list of N non-negative integers, the N
\* branch outputs entering AddTensors all have the finest level's height and
\* width and hidden_channels // 2 channels.
C3_AnyNumUps == BranchesEvaluated => BranchesAligned

\* C3 (amended): the same, for every num_ups list in which each level that
\* is upsampled zero times already has the finest level's spatial size; the
\* default range(N) is such a list.
C3_ZeroUpsAtFinest ==
    (BranchesEvaluated /\ ZeroUpsOnlyAtFinestSize) => BranchesAligned

C3_Witness ==
    /\ BranchesEvaluated
    /\ cfg.num_ups = <<-1>>
    /\ Len(cfg.in_feats_shapes) = 3
    /\ cfg.in_feats_shapes[3][3] # cfg.in_feats_shapes[1][3]
    /\ BranchesAligned

\* The exits of _get_shapes: its return (after which a factory goes on to
\* choose the head) and the error of the probing forward pass.
ProbeReturned == pc \in {"probe_returned", "select"}

ProbeExited == ProbeReturned \/ pc = "probe_raised"

\* C4: on every exit of _get_shapes, by return or by error, the backbone's
\* mode flag is what it was on entry.
C4_RestoredOnEveryExit == ProbeExited => training = EntryTraining

\* C5: after _get_shapes returns normally the backbone's mode flag is what it
\* was on entry, and the probing forward pass runs in inference mode.
C5_ModeRestoredOnReturn ==
    /\ ProbeReturned => training = EntryTraining
    /\ pc = "probe_forward" => training = FALSE

C5_Witness ==
    /\ pc = "probe_returned"
    /\ cfg.training = TRUE
    /\ training = TRUE
    /\ forwards = 1

\* C6: an unrecognized fpn_type is rejected before any forward pass of the
\* backbone has run, the shape probe's included.
C6_RejectedBeforeAnyForward == pc = "raised" => forwards = 0

\* The final result of an FPN or PANetFPN head: every stage is evaluated.
PyramidDone ==
    /\ pc = "head_run"
    /\ cfg.head \in {"fpn", "panet"}
    /\ layer = Len(model.mods)

\* C8: FPN and PANetFPN, given N levels finest first, return N elements
\* finest first, element k of the spatial size of input level k, so that
\* SelectOne(idx=0) selects the finest level.
C8_OrderPreserved ==
    PyramidDone =>
        /\ IsStr(out)
        /\ Len(out.elems) = Len(cfg.in_feats_shapes)
        /\ \A k \in 1..Len(out.elems) :
              /\ IsArr(out.elems[k])
              /\ Spatial(out.elems[k]) =
                    <<cfg.in_feats_shapes[k][3], cfg.in_feats_shapes[k][4]>>
        /\ Spatial(SelectOneFwd(SelectOne(0), out)) =
              <<cfg.in_feats_shapes[1][3], cfg.in_feats_shapes[1][4]>>

C8_Witness ==
    /\ PyramidDone
    /\ cfg.head = "panet"
    /\ Len(cfg.in_feats_shapes) = 3
    /\ IsStr(out)
    /\ Spatial(out.elems[1]) = <<12, 24>>
    /\ Spatial(out.elems[3]) = <<3, 6>>

\* In the fusion backbone the extractor of mode 'fusion' is handed
\* (x, *inps): the 3-channel part of the input and the Stream the second
\* extractor produced.
FusionStreamLen ==
    LET pre == SequentialFwd(SubSeq(backbone.mods, 1, 2),
                             Arr(<<1, ProbeCh, ProbeSz, ProbeSz>>), 1)
    IN 1 + Len(pre.elems[2].elems)

FusionStageCount == Len(backbone.mods[3].m.mods)

\* C9: in the pipelines the factories assemble for a recognized fpn_type no
\* Parallel and no SequentialMultiInputMultiOutput is called with a Stream of
\* another length than its number of stages: no evaluation of the backbone
\* or of the model ends in an arity error, and the Stream (x, *inps) of the
\* fusion backbone has as many elements as its container has stages.
C9_NoArityError ==
    (cfg.entry = "factory" /\ cfg.fpn_type \in FpnTypes) =>
        /\ ~(IsErr(out) /\ out.why = "arity")
        /\ (pc = "probe_forward" /\ IsFusion(cfg)) =>
               FusionStreamLen = FusionStageCount

\* C10: the weight copy loop terminates, and then i = new_channels,
\* remaining_channels = 0 and every input channel j of the new convolution
\* has been written exactly once, with pretrained channel j mod 3; each pass
\* writes at most 3 channels and no assignment leaves the weight's channels.
C10_CopyLoop ==
    /\ <>(pc = "fusion_returned")
    /\ [](pc # "copy_raised")
    /\ [](pc = "fusion_returned" =>
            /\ i = cfg.new_channels
            /\ remaining_channels = 0
            /\ Len(weight) = cfg.new_channels
            /\ \A j \in 1..Len(weight) :
                  writes[j] = 1 /\ weight[j] = (j - 1) % 3)
    /\ [][i' - i \in 0..3]_vars

C10_Witness ==
    /\ pc = "fusion_returned"
    /\ cfg.new_channels = 7
    /\ i = 7
    /\ weight = <<0, 1, 2, 0, 1, 2, 0>>

====
